---- MODULE Spec2Model ----
(***************************************************************************)
(* Model of cargo-credential-netrc (src/src/main.rs).                      *)
(*                                                                         *)
(* The provider is one handler, NetrcCredential::perform, run by the       *)
(* request loop of cargo_credential::main.  Text is modelled as sequences  *)
(* of one-character strings, so that parsing, case folding and escaping    *)
(* are computed and not assumed.                                           *)
(***************************************************************************)
EXTENDS Integers, Sequences, FiniteSets, TLC

\* Longest login / password of the enumerated .netrc files.
MaxSecretLen == 1
\* Largest number of machines in an enumerated .netrc file.
MaxHosts == 2

SeqsUpTo(S, n) == UNION {[1..k -> S] : k \in 0..n}

RECURSIVE Concat(_)
Concat(ss) == IF ss = <<>> THEN <<>> ELSE Head(ss) \o Concat(Tail(ss))

-----------------------------------------------------------------------------
(* Templates: the handlebars constructs the format argument can hold.      *)
(*   lit  c        one character of literal text                           *)
(*   var  name     {{name}}                                                *)
(*   call name     {{name arg}}, a helper call                             *)
(*   if   name b   {{#if name}} b {{/if}}                                  *)
(*   open          an unclosed {{                                          *)

Lit(c) == [t |-> "lit", c |-> c, body |-> <<>>]
Var(n) == [t |-> "var", c |-> n, body |-> <<>>]
Call(n) == [t |-> "call", c |-> n, body |-> <<>>]
IfBlock(n, b) == [t |-> "if", c |-> n, body |-> b]
Open == [t |-> "open", c |-> "", body |-> <<>>]

Text(s) == [i \in 1..Len(s) |-> Lit(s[i])]

Bearer == <<"B", "e", "a", "r", "e", "r", " ">>

T_LoginPassword == <<Var("login"), Lit(":"), Var("password")>>
T_Bearer == Text(Bearer) \o <<Var("password")>>
T_Account == <<Var("account"), Lit("/"), Var("login")>>
T_Unknown == <<Var("login"), Var("unknown"), Lit(":")>>
T_Call == <<Var("password"), Call("foo")>>
T_IfCall == <<IfBlock("password", <<Call("foo")>>)>>
T_UnknownCall == <<Var("unknown"), Call("foo")>>
T_Open == <<Var("password"), Open>>

Templates ==
  {T_LoginPassword, T_Bearer, T_Account, T_Unknown, T_Call, T_IfCall,
   T_UnknownCall, T_Open, <<>>}

-----------------------------------------------------------------------------
(* Command-line words: an option-like word (leading '-') or a plain word.  *)

Flag(n) == [dash |-> TRUE, name |-> n, text |-> <<>>]
Word(t) == [dash |-> FALSE, name |-> "", text |-> t]

ArgLists ==
  {<<>>, <<Flag("--format")>>,
   <<Flag("--format"), Flag("--help")>>,
   <<Flag("--format"), Flag("--version")>>,
   <<Flag("--format"), Flag("--bogus")>>,
   <<Flag("--format"), Flag("--bogus"), Word(T_Bearer)>>,
   <<Flag("--format"), Word(T_Bearer), Word(T_LoginPassword)>>}
  \cup {<<Word(t)>> : t \in Templates}
  \cup {<<Flag("--format"), Word(t)>> : t \in Templates}
  \cup {<<Word(Text(<<"n">>)), Word(t)>> : t \in {T_Bearer, T_Open}}

-----------------------------------------------------------------------------
(* Registry index URLs, by the parts the url crate distinguishes.          *)

UrlOf(wf, sp, k, txt) == [wellformed |-> wf, special |-> sp, kind |-> k, text |-> txt]

Domains == {<<"h">>, <<"H">>, <<"h", "h">>}
Ip4 == <<"127.0.0.1">>
Ip6 == <<"::1">>

\* "not a url"
NotAUrl == UrlOf(FALSE, FALSE, "none", <<>>)
\* "mailto:x"
Hostless == UrlOf(TRUE, FALSE, "none", <<>>)

IndexUrls ==
  {NotAUrl, Hostless, UrlOf(TRUE, TRUE, "ipv4", Ip4), UrlOf(TRUE, TRUE, "ipv6", Ip6)}
  \cup {UrlOf(TRUE, sp, "domain", d) : sp \in BOOLEAN, d \in Domains}

Actions == {"Get", "Login", "Logout", "Unknown"}

-----------------------------------------------------------------------------
(* .netrc files.                                                           *)

Logins == SeqsUpTo({"u"}, MaxSecretLen)
Accounts == {<<>>, <<"a">>}
Passwords == SeqsUpTo({"s", "&"}, MaxSecretLen)

Authenticators == [login : Logins, account : Accounts, password : Passwords]

TwoAuthenticators ==
  {[login |-> <<"u">>, account |-> <<>>, password |-> <<"s">>],
   [login |-> <<>>, account |-> <<"a">>, password |-> <<"&">>]}

Machines == Domains \cup {Ip4}

NoHosts == [k \in {} |-> 0]

Unreadable == [ok |-> FALSE, hosts |-> NoHosts]

NetrcFiles ==
  {Unreadable, [ok |-> TRUE, hosts |-> NoHosts]}
  \cup {[ok |-> TRUE, hosts |-> h] :
          h \in UNION {[{m} -> Authenticators] : m \in Machines}}
  \cup {[ok |-> TRUE, hosts |-> h] :
          h \in UNION {[K -> TwoAuthenticators] :
                         K \in {S \in SUBSET Machines :
                                  Cardinality(S) >= 2 /\ Cardinality(S) <= MaxHosts}}}

-----------------------------------------------------------------------------
(* Results of perform: Ok(CredentialResponse) or Err(cargo_credential::Error). *)

NoResult ==
  [ok |-> FALSE, variant |-> "", source |-> "", msg |-> <<>>, token |-> <<>>,
   cache |-> "", operation_independent |-> FALSE]

\* Err(cargo_credential::Error::<variant>), a variant without payload.
Err(variant) == [NoResult EXCEPT !.variant = variant]

\* Err(cargo_credential::Error::Other(Box::new(e))), e of type source.
ErrOther(source, msg) ==
  [NoResult EXCEPT !.variant = "Other", !.source = source, !.msg = msg]

ResponseGet_cache_never(token) ==
  [NoResult EXCEPT !.ok = TRUE, !.variant = "Get", !.token = token,
                   !.cache = "Never", !.operation_independent = TRUE]

\* Ok(CredentialResponse::Get { token, cache: Session, operation_independent: true })
ResponseGet(token) ==
  [NoResult EXCEPT !.ok = TRUE, !.variant = "Get", !.token = token,
                   !.cache = "Session", !.operation_independent = TRUE]

-----------------------------------------------------------------------------
(* Args::try_parse_from: clap takes the first word as the program name,    *)
(* then wants exactly one positional word, the format.                     *)

RECURSIVE clap_scan(_, _, _)
clap_scan(words, have, format) ==
  IF words = <<>>
  THEN IF have THEN [ok |-> TRUE, format |-> format, err |-> <<>>]
       ELSE [ok |-> FALSE, format |-> <<>>, err |-> <<"MissingRequiredArgument", "<FORMAT>">>]
  ELSE LET w == Head(words) IN
       IF w.dash
       THEN [ok |-> FALSE, format |-> <<>>,
             err |-> IF w.name = "--help" THEN <<"DisplayHelp">>
                     ELSE IF w.name = "--version" THEN <<"DisplayVersion">>
                     ELSE <<"UnknownArgument", w.name>>]
       ELSE IF have
       THEN [ok |-> FALSE, format |-> <<>>, err |-> <<"UnknownArgument", "<word>">>]
       ELSE clap_scan(Tail(words), TRUE, w.text)

Args_try_parse_from_no_binary_name(args) == clap_scan(args, FALSE, <<>>)

Args_try_parse_from(args) ==
  clap_scan(IF args = <<>> THEN <<>> ELSE Tail(args), FALSE, <<>>)

-----------------------------------------------------------------------------
(* Url::parse(index_url) and .host(), then the host's to_string().         *)

ToLower(c) == IF c = "H" THEN "h" ELSE c

Lower(s) == [i \in 1..Len(s) |-> ToLower(s[i])]

Url_parse(index_url) ==
  IF index_url.wellformed
  THEN [ok |-> TRUE, url |-> index_url, err |-> <<>>]
  ELSE [ok |-> FALSE, url |-> index_url, err |-> <<"RelativeUrlWithoutBase">>]

\* A special scheme (https) lower-cases a domain and reads an IPv4 literal;
\* any other scheme (sparse+https) keeps the host as an opaque domain.
Url_host(url) ==
  CASE url.kind = "none" -> [some |-> FALSE, variant |-> "", text |-> <<>>]
    [] url.kind = "ipv6" -> [some |-> TRUE, variant |-> "Ipv6", text |-> url.text]
    [] url.kind = "ipv4" ->
         [some |-> TRUE, variant |-> IF url.special THEN "Ipv4" ELSE "Domain",
          text |-> url.text]
    [] OTHER ->
         [some |-> TRUE, variant |-> "Domain",
          text |-> IF url.special THEN Lower(url.text) ELSE url.text]

-----------------------------------------------------------------------------
(* Netrc::new() and netrc.hosts.get(&host).                                *)

Netrc_new(file) ==
  IF file.ok
  THEN [ok |-> TRUE, hosts |-> file.hosts, err |-> <<>>]
  ELSE [ok |-> FALSE, hosts |-> NoHosts, err |-> <<"netrc unavailable">>]

NoAuthenticator == [login |-> <<>>, account |-> <<>>, password |-> <<>>]

IsPrefix(p, s) == Len(p) <= Len(s) /\ SubSeq(s, 1, Len(p)) = p

hosts_get_ignore_case(hosts, host) ==
  IF \E k \in DOMAIN hosts : Lower(k) = Lower(host)
  THEN [some |-> TRUE,
        authenticator |-> hosts[CHOOSE k \in DOMAIN hosts : Lower(k) = Lower(host)]]
  ELSE [some |-> FALSE, authenticator |-> NoAuthenticator]

hosts_get_prefix(hosts, host) ==
  IF \E k \in DOMAIN hosts : IsPrefix(host, k)
  THEN [some |-> TRUE,
        authenticator |-> hosts[CHOOSE k \in DOMAIN hosts : IsPrefix(host, k)]]
  ELSE [some |-> FALSE, authenticator |-> NoAuthenticator]

hosts_get(hosts, host) ==
  IF host \in DOMAIN hosts
  THEN [some |-> TRUE, authenticator |-> hosts[host]]
  ELSE [some |-> FALSE, authenticator |-> NoAuthenticator]

-----------------------------------------------------------------------------
(* Handlebars::new().render_template(&args.format, &data).                 *)
(* data holds login, account and password; the registry is the default     *)
(* one: values are HTML-escaped, strict mode is off, no helper is added.   *)

Fields == {"login", "account", "password"}

\* data.insert("login", ..), data.insert("account", ..), data.insert("password", ..)
Data(authenticator) ==
  [n \in Fields |->
     CASE n = "login" -> authenticator.login
       [] n = "account" -> authenticator.account
       [] OTHER -> authenticator.password]

escape_char(c) ==
  CASE c = "&" -> <<"&", "a", "m", "p", ";">>
    [] c = "<" -> <<"&", "l", "t", ";">>
    [] c = ">" -> <<"&", "g", "t", ";">>
    [] OTHER -> <<c>>

no_escape(s) == s

\* handlebars' default escape function
html_escape(s) == Concat([i \in 1..Len(s) |-> escape_char(s[i])])

Rendered(out) == [ok |-> TRUE, out |-> out, err |-> <<>>]

RenderFailed(err) == [ok |-> FALSE, out |-> <<>>, err |-> err]

render_missing_variable_strict(name) ==
  RenderFailed(<<"Variable not found in strict mode", name>>)

\* a name the data does not hold renders as nothing (strict mode is off)
render_missing_variable(name) == Rendered(<<>>)

helper_not_defined_with_output(name, out) ==
  RenderFailed(<<"Helper not defined", name>> \o out)

\* no helper of that name is registered; out is what was rendered before it
helper_not_defined(name, out) == RenderFailed(<<"Helper not defined", name>>)

RECURSIVE template_compiles(_)
template_compiles(tpl) ==
  \A i \in 1..Len(tpl) :
    /\ tpl[i].t # "open"
    /\ tpl[i].t = "if" => template_compiles(tpl[i].body)

\* {{#if name}}: a missing or empty value is false
truthy(data, name) == name \in DOMAIN data /\ data[name] # <<>>

RECURSIVE render(_, _, _)
render(tpl, data, out) ==
  IF tpl = <<>> THEN Rendered(out)
  ELSE LET p == Head(tpl) IN
    CASE p.t = "lit" -> render(Tail(tpl), data, Append(out, p.c))
      [] p.t = "var" ->
           LET v == IF p.c \in DOMAIN data
                    THEN Rendered(html_escape(data[p.c]))
                    ELSE render_missing_variable(p.c)
           IN IF v.ok THEN render(Tail(tpl), data, out \o v.out) ELSE v
      [] p.t = "call" -> helper_not_defined(p.c, out)
      [] p.t = "if" ->
           IF truthy(data, p.c)
           THEN LET b == render(p.body, data, out)
                IN IF b.ok THEN render(Tail(tpl), data, b.out) ELSE b
           ELSE render(Tail(tpl), data, out)
      [] OTHER -> RenderFailed(<<"Template error">>)

render_template(format, data) ==
  IF template_compiles(format)
  THEN render(format, data, <<>>)
  ELSE RenderFailed(<<"Template error", "invalid handlebars syntax">>)

-----------------------------------------------------------------------------
(* NetrcCredential::perform.  res is what it returns; stages lists, in     *)
(* order, the steps it ran.                                                *)

Outcome(res, stages) == [res |-> res, stages |-> stages]

IsGetOrLogout(action) == action \in {"Get", "Logout"}

\* match action { Action::Get(_) => .., _ => .. }
IsGet(action) == action = "Get"

perform_Get_load_first(registry, format, file) ==
    LET netrc == Netrc_new(file)
        parsed == Url_parse(registry.index_url)
        host == Url_host(parsed.url)
        found == hosts_get(netrc.hosts, host.text)
        token == render_template(format, Data(found.authenticator))
    IN
    IF ~netrc.ok
    THEN Outcome(ErrOther("netrc::Error", netrc.err), <<"config", "dispatch", "load">>)
    ELSE IF ~parsed.ok
    THEN Outcome(ErrOther("url::ParseError", parsed.err),
                 <<"config", "dispatch", "load", "url">>)
    ELSE IF ~host.some
    THEN Outcome(Err("UrlNotSupported"), <<"config", "dispatch", "load", "url", "host">>)
    ELSE IF ~found.some
    THEN Outcome(Err("NotFound"), <<"config", "dispatch", "load", "url", "host", "lookup">>)
    ELSE IF ~token.ok
    THEN Outcome(ErrOther("handlebars::RenderError", token.err),
                 <<"config", "dispatch", "load", "url", "host", "lookup", "render">>)
    ELSE Outcome(ResponseGet(token.out),
                 <<"config", "dispatch", "load", "url", "host", "lookup", "render">>)

\* the Action::Get(_) arm; file is the .netrc file it reads
perform_Get(registry, format, file) ==
    LET parsed == Url_parse(registry.index_url)
        host == Url_host(parsed.url)
        netrc == Netrc_new(file)
        found == hosts_get(netrc.hosts, host.text)
        token == render_template(format, Data(found.authenticator))
    IN
    IF ~parsed.ok
    THEN Outcome(ErrOther("url::ParseError", parsed.err), <<"config", "dispatch", "url">>)
    ELSE IF ~host.some
    THEN Outcome(Err("UrlNotSupported"), <<"config", "dispatch", "url", "host">>)
    ELSE IF ~netrc.ok
    THEN Outcome(ErrOther("netrc::Error", netrc.err),
                 <<"config", "dispatch", "url", "host", "load">>)
    ELSE IF ~found.some
    THEN Outcome(Err("NotFound"), <<"config", "dispatch", "url", "host", "load", "lookup">>)
    ELSE IF ~token.ok
    THEN Outcome(ErrOther("handlebars::RenderError", token.err),
                 <<"config", "dispatch", "url", "host", "load", "lookup", "render">>)
    ELSE Outcome(ResponseGet(token.out),
                 <<"config", "dispatch", "url", "host", "load", "lookup", "render">>)

NetrcCredential_perform(registry, action, args, file) ==
  LET parsed == Args_try_parse_from(args) IN
  IF ~parsed.ok
  THEN Outcome(ErrOther("clap::Error", parsed.err), <<"config">>)
  ELSE IF IsGet(action)
  THEN perform_Get(registry, parsed.format, file)
  ELSE Outcome(Err("OperationNotSupported"), <<"config", "dispatch">>)

-----------------------------------------------------------------------------
(* The process: cargo_credential::main reads a request, calls perform,     *)
(* writes the result back and waits for the next request.                  *)

VARIABLES netrcFile, pc, request, result, stages

vars == <<netrcFile, pc, request, result, stages>>

Request(index_url, action, args) ==
  [registry |-> [index_url |-> index_url], action |-> action, args |-> args]

NoRequest == Request(NotAUrl, "Unknown", <<>>)

Init ==
  /\ netrcFile \in NetrcFiles
  /\ pc = "idle"
  /\ request = NoRequest
  /\ result = NoResult
  /\ stages = <<>>

perform_erasing ==
  /\ pc = "idle"
  /\ \E index_url \in IndexUrls, action \in Actions, args \in ArgLists :
       LET o == NetrcCredential_perform([index_url |-> index_url], action, args, netrcFile)
       IN /\ request' = Request(index_url, action, args)
          /\ result' = o.res
          /\ stages' = o.stages
          /\ netrcFile' = IF action = "Logout" /\ netrcFile.ok
                          THEN [netrcFile EXCEPT !.hosts = NoHosts]
                          ELSE netrcFile
  /\ pc' = "done"

\* one call of perform, on any request the host can send
perform ==
  /\ pc = "idle"
  /\ \E index_url \in IndexUrls, action \in Actions, args \in ArgLists :
       LET o == NetrcCredential_perform([index_url |-> index_url], action, args, netrcFile)
       IN /\ request' = Request(index_url, action, args)
          /\ result' = o.res
          /\ stages' = o.stages
  /\ pc' = "done"
  /\ UNCHANGED netrcFile

\* the result is handed back; request and result are dropped
main ==
  /\ pc = "done"
  /\ pc' = "idle"
  /\ request' = NoRequest
  /\ result' = NoResult
  /\ stages' = <<>>
  /\ UNCHANGED netrcFile

Next == perform \/ main

Spec == Init /\ [][Next]_vars

-----------------------------------------------------------------------------
(* Vocabulary of the properties.                                           *)

Done == pc = "done"

ArgsOk == Args_try_parse_from(request.args).ok

Format == Args_try_parse_from(request.args).format

ParsedUrl == Url_parse(request.registry.index_url)

ResolvedHost == Url_host(ParsedUrl.url)

Resolves == ParsedUrl.ok /\ ResolvedHost.some

HostInDb == Resolves /\ netrcFile.ok /\ ResolvedHost.text \in DOMAIN netrcFile.hosts

Entry == netrcFile.hosts[ResolvedHost.text]

LookupSucceeds == request.action = "Get" /\ HostInDb

ReachesRendering == ArgsOk /\ LookupSucceeds

\* The error kinds of the specification, as the code represents them.
Kind(r) == <<r.variant, r.source>>

ConfigError == <<"Other", "clap::Error">>
UrlParseError == <<"Other", "url::ParseError">>
UrlNotSupported == <<"UrlNotSupported", "">>
StoreUnavailable == <<"Other", "netrc::Error">>
NotFound == <<"NotFound", "">>
InvalidTemplate == <<"Other", "handlebars::RenderError">>
OperationNotSupported == <<"OperationNotSupported", "">>

Fails(r, kind) == ~r.ok /\ Kind(r) = kind

ResultOfRender(r) ==
  IF r.ok THEN ResponseGet(r.out) ELSE ErrOther("handlebars::RenderError", r.err)

RECURSIVE RefersUnknown(_)
RefersUnknown(tpl) ==
  \E i \in 1..Len(tpl) :
    \/ tpl[i].t = "var" /\ tpl[i].c \notin Fields
    \/ tpl[i].t = "if" /\ RefersUnknown(tpl[i].body)

RECURSIVE StripUnknown(_)
StripUnknown(tpl) ==
  IF tpl = <<>> THEN <<>>
  ELSE LET p == Head(tpl) IN
       IF p.t = "var" /\ p.c \notin Fields THEN StripUnknown(Tail(tpl))
       ELSE IF p.t = "if"
       THEN <<IfBlock(p.c, StripUnknown(p.body))>> \o StripUnknown(Tail(tpl))
       ELSE <<p>> \o StripUnknown(Tail(tpl))

RECURSIVE CallFree(_)
CallFree(tpl) ==
  \A i \in 1..Len(tpl) :
    /\ tpl[i].t # "call"
    /\ tpl[i].t = "if" => CallFree(tpl[i].body)

ValidTemplate(tpl) == template_compiles(tpl) /\ CallFree(tpl)

BlockFree(tpl) == \A i \in 1..Len(tpl) : tpl[i].t # "if"

SameKeysFiles == {f \in NetrcFiles : f.ok /\ DOMAIN f.hosts = DOMAIN netrcFile.hosts}

StageOrder == <<"config", "dispatch", "url", "host", "load", "lookup", "render">>

StagesUpTo(stage) ==
  SubSeq(StageOrder, 1, CHOOSE n \in 1..Len(StageOrder) : StageOrder[n] = stage)

-----------------------------------------------------------------------------
\* C1: a call whose args parse and whose action is not Get (Login/Store,
\* Logout/Erase or any other kind) fails with OperationNotSupported, whatever
\* the .netrc file and the index_url are; it never returns a response.
C1_NonGetUnsupported ==
  Done /\ ArgsOk /\ request.action # "Get" => result = Err("OperationNotSupported")

C1_Witness ==
  /\ Done /\ ArgsOk /\ request.action = "Login"
  /\ ~netrcFile.ok /\ ~ParsedUrl.ok
  /\ Fails(result, OperationNotSupported)

\* C2: a Get whose args parse, whose index_url resolves to a host and whose
\* .netrc file loads but has no machine equal to that host fails with NotFound,
\* whatever the template is; it never returns a response.
C2_AbsentHostNotFound ==
  Done /\ ArgsOk /\ request.action = "Get" /\ Resolves /\ netrcFile.ok
       /\ ResolvedHost.text \notin DOMAIN netrcFile.hosts
    => result = Err("NotFound")

C2_Witness ==
  /\ Done /\ ArgsOk /\ request.action = "Get" /\ Resolves /\ netrcFile.ok
  /\ ResolvedHost.text \notin DOMAIN netrcFile.hosts
  /\ \E k \in DOMAIN netrcFile.hosts : Lower(k) = Lower(ResolvedHost.text)
  /\ Format = <<>>
  /\ Fails(result, NotFound)

\* C3: rendering substitutes login and password verbatim: the template
\* {{login}}:{{password}} gives login ":" password and the template
\* Bearer {{password}} gives "Bearer " password, for every value of the fields.
C3_VerbatimRendering ==
  Done /\ result.ok =>
    /\ Format = T_LoginPassword => result.token = Entry.login \o <<":">> \o Entry.password
    /\ Format = T_Bearer => result.token = Bearer \o Entry.password

C5_ExactHostMatch ==
  Done /\ ArgsOk /\ request.action = "Get" /\ ValidTemplate(Format) /\ netrcFile.ok =>
    /\ result.ok <=> HostInDb
    /\ result.ok => result.token = render_template(Format, Data(Entry)).out

C5_Witness ==
  /\ Done /\ ArgsOk /\ request.action = "Get" /\ Format = T_LoginPassword
  /\ HostInDb /\ ResolvedHost.text = <<"H">>
  /\ <<"h">> \in DOMAIN netrcFile.hosts
  /\ netrcFile.hosts[<<"h">>] # netrcFile.hosts[<<"H">>]
  /\ result.ok
  /\ result.token # render_template(Format, Data(netrcFile.hosts[<<"h">>])).out

\* C6: every response is a Get response with cache Session and
\* operation_independent true.
C6_SuccessIsSessionGet ==
  result.ok =>
    result.variant = "Get" /\ result.cache = "Session" /\ result.operation_independent

C6_Witness == Done /\ result.ok /\ result.token # <<>>

\* C7, as claimed: an args list of exactly one word T parses, and an empty
\* args list fails with ConfigError.
C7_SingleWordIsFormat ==
  Done =>
    /\ Len(request.args) = 1 /\ ~request.args[1].dash => ~Fails(result, ConfigError)
    /\ request.args = <<>> => Fails(result, ConfigError)

\* C7, amended: the first word of args is taken as the program name; args of
\* two words whose second word T is not option-like parse, and T is the
\* template a Get renders; args of fewer than two words fail with ConfigError.
C7_FormatIsSecondWord ==
  Done =>
    /\ Len(request.args) = 2 /\ ~request.args[2].dash =>
         /\ ~Fails(result, ConfigError)
         /\ LookupSucceeds =>
              result = ResultOfRender(render_template(request.args[2].text, Data(Entry)))
    /\ Len(request.args) <= 1 => Fails(result, ConfigError)

C7_Witness ==
  /\ Done /\ request.args = <<Flag("--format"), Word(T_Bearer)>>
  /\ LookupSucceeds /\ Entry.password = <<"s">>
  /\ result.ok /\ result.token = Bearer \o <<"s">>

\* C8, as claimed: a failed call fails with the same error on every .netrc
\* file that has the same machines, whatever their logins, accounts and
\* passwords are, and the error carries no token.
C8_ErrorsIgnoreSecrets ==
  Done /\ ~result.ok /\ netrcFile.ok =>
    /\ result.token = <<>>
    /\ \A f \in SameKeysFiles :
         NetrcCredential_perform(request.registry, request.action, request.args, f).res
           = result

\* C8, amended: the same, for templates without blocks: literal text, plain
\* references, calls of undefined helpers and malformed constructs.
C8_ErrorsIgnoreSecretsBlockFree ==
  Done /\ ~result.ok /\ netrcFile.ok
       /\ (\A i \in 1..Len(request.args) : BlockFree(request.args[i].text)) =>
    /\ result.token = <<>>
    /\ \A f \in SameKeysFiles :
         NetrcCredential_perform(request.registry, request.action, request.args, f).res
           = result

C8_Witness ==
  /\ Done /\ ReachesRendering /\ Format = T_Call
  /\ Entry.password = <<"&">>
  /\ \E f \in SameKeysFiles : f.hosts[ResolvedHost.text].password = <<"s">>
  /\ result = ErrOther("handlebars::RenderError", <<"Helper not defined", "foo">>)

\* C9: perform reports the error of the first failing stage in the order
\* config, dispatch, url, host, load, lookup, render, and runs no later stage;
\* the seven error kinds are distinct.
C9_FirstFailingStage ==
  /\ Cardinality({ConfigError, OperationNotSupported, UrlParseError, UrlNotSupported,
                  StoreUnavailable, NotFound, InvalidTemplate}) = 7
  /\ Done =>
       IF ~ArgsOk
       THEN Fails(result, ConfigError) /\ stages = StagesUpTo("config")
       ELSE IF request.action # "Get"
       THEN Fails(result, OperationNotSupported) /\ stages = StagesUpTo("dispatch")
       ELSE IF ~ParsedUrl.ok
       THEN Fails(result, UrlParseError) /\ stages = StagesUpTo("url")
       ELSE IF ~ResolvedHost.some
       THEN Fails(result, UrlNotSupported) /\ stages = StagesUpTo("host")
       ELSE IF ~netrcFile.ok
       THEN Fails(result, StoreUnavailable) /\ stages = StagesUpTo("load")
       ELSE IF ResolvedHost.text \notin DOMAIN netrcFile.hosts
       THEN Fails(result, NotFound) /\ stages = StagesUpTo("lookup")
       ELSE /\ stages = StagesUpTo("render")
            /\ ~template_compiles(Format) => Fails(result, InvalidTemplate)

C9_Witness ==
  /\ Done /\ ArgsOk /\ request.action = "Get"
  /\ ~ParsedUrl.ok /\ ~netrcFile.ok /\ ~template_compiles(Format)
  /\ Fails(result, UrlParseError)
  /\ stages = <<"config", "dispatch", "url">>

\* C10: no call of perform changes the .netrc file, and the result of a call
\* is determined by its own request and the file.
C10_FileNeverChanged ==
  [][/\ netrcFile' = netrcFile
     /\ pc' = "done" =>
          result' = NetrcCredential_perform(request'.registry, request'.action,
                                            request'.args, netrcFile).res]_vars

C10_Witness ==
  /\ Done /\ request.action \in {"Login", "Logout"} /\ ArgsOk
  /\ DOMAIN netrcFile.hosts # {}

====
